---- MODULE Spec2Model ----
(***************************************************************************)
(* Model of firmware/reset.c: the "create new wallet" workflow             *)
(* (reset_init, reset_entropy) and the word-by-word backup confirmation    *)
(* (reset_backup).  Handlers run one at a time; a handler that blocks in   *)
(* protectButton inside the word loop of reset_backup is suspended at      *)
(* pc = "confirm_word" until the button outcome arrives.                   *)
(***************************************************************************)
EXTENDS Integers, Sequences, FiniteSets, TLC

(***************************************************************************)
(* Bounds of the model.                                                    *)
(***************************************************************************)
\* number of messages (ResetDevice, EntropyAck, BackupDevice) the host sends
MaxCalls == 3

(***************************************************************************)
(* Characters and buffers.  Bytes and characters are integers; a C string  *)
(* is the sequence of its characters, the terminator is implicit at        *)
(* 0-based index Len(s).                                                   *)
(***************************************************************************)
NUL == 0
SPACE == 32
\* sizeof(current_word)
WordBufSize == 10
\* sizeof(int_entropy)
EntropyLen == 32

Zero32 == [k \in 1..EntropyLen |-> 0]
ZeroWord == [k \in 0..(WordBufSize - 1) |-> NUL]

\* mnemonic[i] of the C code; an index past the terminator reads outside the string
At(mn, i) == IF i < Len(mn) THEN mn[i + 1] ELSE IF i = Len(mn) THEN NUL ELSE -1

\* the C string held in a char buffer: the characters before the first NUL
RECURSIVE CStr(_, _)
CStr(buf, k) ==
    IF k >= WordBufSize \/ buf[k] = NUL THEN <<>> ELSE <<buf[k]>> \o CStr(buf, k + 1)

(***************************************************************************)
(* Collaborators.                                                          *)
(***************************************************************************)
\* random_buffer(int_entropy, 32): the buffers the device RNG may produce
RandomBuffers == { [k \in 1..EntropyLen |-> (37 * r + 11 * k) % 256] : r \in {1, 2} }

\* host supplied entropy (ext_entropy, len)
ExtEntropies == { <<>>, <<7, 200, 13>> }

\* sha256 over a byte string: a deterministic 32-byte digest of all input bytes, in order
RECURSIVE sha256_absorb(_, _, _)
sha256_absorb(acc, bytes, k) ==
    IF k > Len(bytes) THEN acc
    ELSE sha256_absorb((acc * 33 + bytes[k] + 1) % 65521, bytes, k + 1)

sha256(bytes) ==
    LET h == sha256_absorb(5381, bytes, 1)
    IN  [k \in 1..EntropyLen |-> ((h + 131 * k) * (2 * k + 1) + (h \div 256)) % 256]

\* the word list of the mnemonic collaborator: "ab", "cde", "f"
WordList == << <<97, 98>>, <<99, 100, 101>>, <<102>> >>

\* mnemonic_from_data(data, len): a deterministic word sequence, single-space
\* separated, that depends on the first len bytes of data only
RECURSIVE mnemonic_words(_, _, _)
mnemonic_words(data, len, w) ==
    IF 8 * w > len THEN <<>>
    ELSE LET word == WordList[((data[8 * w - 7] + data[8 * w]) % Len(WordList)) + 1]
         IN  (IF w = 1 THEN word ELSE <<SPACE>> \o word) \o mnemonic_words(data, len, w + 1)

mnemonic_from_data(data, len) == mnemonic_words(data, len, 1)

\* the four settings reset_init passes on to the configuration store
SettingsInputs ==
    { [passphrase_protection |-> TRUE, language |-> "english", label |-> "wallet", u2f_counter |-> 1] }

Strengths == {128, 192, 256}
\* _strength values a host may send: the valid ones and an unsupported one
StrengthInputs == Strengths \cup {160}

(***************************************************************************)
(* State.                                                                  *)
(***************************************************************************)
VARIABLES
    \* reset.c statics
    strength, int_entropy, awaiting_entropy, skip_backup, no_backup, current_word,
    \* bip39 static mnemonic buffer (mnemonic_from_data / mnemonic_clear)
    mnemo,
    \* configuration store
    cfg_mnemonic, cfg_needs_backup, cfg_unfinished_backup, cfg_no_backup, cfg_settings,
    \* position and locals of a reset_backup suspended in protectButton
    pc, separated, mnemonic, pass, i, word_pos,
    \* the handler invoked last, with its arguments
    call,
    \* calls made to the collaborators by the handler running or last run
    out,
    \* the EntropyRequest the host has yet to answer, tagged with the arguments and
    \* the entropy of the reset_init that wrote it
    pending_request,
    \* number of messages the host has sent
    calls

session_vars == <<strength, int_entropy, awaiting_entropy, skip_backup, no_backup>>
config_vars == <<cfg_mnemonic, cfg_needs_backup, cfg_unfinished_backup, cfg_no_backup, cfg_settings>>
backup_vars == <<pc, separated, mnemonic, pass, i, word_pos>>
vars == <<strength, int_entropy, awaiting_entropy, skip_backup, no_backup, current_word,
          mnemo, cfg_mnemonic, cfg_needs_backup, cfg_unfinished_backup, cfg_no_backup,
          cfg_settings, pc, separated, mnemonic, pass, i, word_pos, call, out,
          pending_request, calls>>

NoMnemonic == <<>>
NoRequest ==
    [outstanding |-> FALSE, strength |-> 0, entropy |-> Zero32,
     skip_backup |-> FALSE, no_backup |-> FALSE]
UnsetSettings == [passphrase_protection |-> FALSE, language |-> "", label |-> "", u2f_counter |-> 0]

Init ==
    /\ strength = 0
    /\ int_entropy = Zero32
    /\ awaiting_entropy = FALSE
    /\ skip_backup = FALSE
    /\ no_backup = FALSE
    /\ current_word = ZeroWord
    /\ mnemo = NoMnemonic
    /\ cfg_mnemonic = NoMnemonic
    /\ cfg_needs_backup = FALSE
    /\ cfg_unfinished_backup = FALSE
    /\ cfg_no_backup = FALSE
    /\ cfg_settings = UnsetSettings
    /\ pc = "idle"
    /\ separated = FALSE
    /\ mnemonic = NoMnemonic
    /\ pass = 0
    /\ i = 0
    /\ word_pos = 0
    /\ call = [op |-> "none"]
    /\ out = <<>>
    /\ pending_request = NoRequest
    /\ calls = 0

\* the host sends one more message, which invokes handler c.op
Call(c) ==
    /\ calls < MaxCalls
    /\ calls' = calls + 1
    /\ call' = c

(***************************************************************************)
(* Calls to collaborators, as recorded in out.                             *)
(***************************************************************************)
Failure(code, text) == [t |-> "fsm_sendFailure", code |-> code, text |-> text]
Success(text) == [t |-> "fsm_sendSuccess", text |-> text]
Home == [t |-> "layoutHome"]
Dialog(what) == [t |-> "layoutDialogSwipe", what |-> what]
Button(type, result) == [t |-> "protectButton", type |-> type, result |-> result]
ChangePin(result) == [t |-> "protectChangePin", result |-> result]
RandomBuffer == [t |-> "random_buffer"]
ConfigSet(name, value) == [t |-> "config_set", name |-> name, value |-> value]
EntropyRequest == [t |-> "msg_write", msg |-> "EntropyRequest"]
Word(word, p, pos, last) ==
    [t |-> "layoutResetWord", word |-> word, pass |-> p, word_pos |-> pos, is_last |-> last]
SetMnemonic(by, result) == [t |-> "config_setMnemonic", by |-> by, result |-> result]
SessionClear == [t |-> "session_clear"]
MnemonicClear == [t |-> "mnemonic_clear"]
MnemonicFromData(data) == [t |-> "mnemonic_from_data", data |-> data]

(***************************************************************************)
(* reset_init                                                              *)
(***************************************************************************)
\* line 42
strength_valid(_strength) == ~(_strength /= 128 /\ _strength /= 192 /\ _strength /= 256)

\* the check of line 48 without no_backup
options_incompatible_skip_only(display_random, skip, no) == display_random /\ skip

\* line 48, on the statics just assigned
options_incompatible(display_random, skip, no) == display_random /\ (skip \/ no)

\* line 78 with the result of protectChangePin ignored
pin_failed_ignored(pin_protection, pin_ok) == FALSE

\* line 78
pin_failed(pin_protection, pin_ok) == pin_protection /\ ~pin_ok

\* lines 83-86
apply_settings(settings) ==
    <<ConfigSet("PassphraseProtection", settings.passphrase_protection),
      ConfigSet("Language", settings.language),
      ConfigSet("Label", settings.label),
      ConfigSet("U2FCounter", settings.u2f_counter)>>

\* lines 88-91
request_entropy(_strength, rnd, skip, no) ==
    /\ awaiting_entropy' = TRUE
    /\ pending_request' = [outstanding |-> TRUE, strength |-> _strength, entropy |-> rnd,
                           skip_backup |-> skip, no_backup |-> no]

\* lines 54-92: from the create-wallet dialog on
init_confirmed(display_random, _strength, settings, pin_protection, confirm_create, rnd, confirm_entropy, pin_ok) ==
    IF ~confirm_create
    THEN /\ out' = <<Dialog("create"), Button("ProtectCall", FALSE),
                     Failure("ActionCancelled", ""), Home>>
         /\ UNCHANGED <<int_entropy, awaiting_entropy, cfg_settings, pending_request>>
    ELSE LET o1 == <<Dialog("create"), Button("ProtectCall", TRUE), RandomBuffer>>
             o2 == IF display_random
                   THEN o1 \o <<Dialog("entropy"), Button("ResetDevice", confirm_entropy)>>
                   ELSE o1
         IN  /\ int_entropy' = rnd
             /\ IF display_random /\ ~confirm_entropy
                THEN /\ out' = o2 \o <<Failure("ActionCancelled", ""), Home>>
                     /\ UNCHANGED <<awaiting_entropy, cfg_settings, pending_request>>
                ELSE IF pin_failed(pin_protection, pin_ok)
                THEN /\ out' = o2 \o <<ChangePin(FALSE), Home>>
                     /\ UNCHANGED <<awaiting_entropy, cfg_settings, pending_request>>
                ELSE /\ cfg_settings' = settings
                     /\ out' = o2 \o (IF pin_protection THEN <<ChangePin(pin_ok)>> ELSE <<>>)
                                  \o apply_settings(settings) \o <<EntropyRequest>>
                     /\ request_entropy(_strength, rnd, skip_backup', no_backup')

\* lines 40-92, with the outcomes of the two confirmations and of PIN setup
reset_init(display_random, _strength, settings, pin_protection, _skip_backup, _no_backup, confirm_create, rnd, confirm_entropy, pin_ok) ==
    /\ pc = "idle"
    /\ UNCHANGED <<current_word, mnemo, cfg_mnemonic, cfg_needs_backup,
                   cfg_unfinished_backup, cfg_no_backup, backup_vars>>
    /\ IF ~strength_valid(_strength)
       THEN /\ out' = <<>>
            /\ UNCHANGED <<session_vars, cfg_settings, pending_request>>
       ELSE /\ strength' = _strength
            /\ skip_backup' = _skip_backup
            /\ no_backup' = _no_backup
            /\ IF options_incompatible(display_random, _skip_backup, _no_backup)
               THEN /\ out' = <<Failure("ProcessError",
                                        "Can't show internal entropy when backup is skipped"),
                                Home>>
                    /\ UNCHANGED <<int_entropy, awaiting_entropy, cfg_settings, pending_request>>
               ELSE init_confirmed(display_random, _strength, settings, pin_protection,
                                   confirm_create, rnd, confirm_entropy, pin_ok)

\* ResetDevice message.  An input or outcome that the path taken never reads is
\* fixed (an input to FALSE, an outcome to TRUE, the random buffer to one value), so
\* that each run of the handler is one step.
ResetInit ==
    /\ calls < MaxCalls
    /\ \E _strength \in StrengthInputs, display_random, _skip_backup, _no_backup \in BOOLEAN :
           LET asked == strength_valid(_strength)
                        /\ ~options_incompatible(display_random, _skip_backup, _no_backup)
           IN  /\ ~strength_valid(_strength) => ~(display_random \/ _skip_backup \/ _no_backup)
               /\ \E confirm_create, confirm_entropy \in BOOLEAN :
                    /\ ~asked => confirm_create
                    /\ ~(asked /\ confirm_create /\ display_random) => confirm_entropy
                    /\ \E rnd \in RandomBuffers, pin_protection, pin_ok \in BOOLEAN :
                         LET at_pin == asked /\ confirm_create /\ confirm_entropy
                         IN  /\ ~(asked /\ confirm_create) => rnd = CHOOSE r \in RandomBuffers : TRUE
                             /\ ~at_pin => ~pin_protection
                             /\ ~(at_pin /\ pin_protection) => pin_ok
                             /\ \E settings \in SettingsInputs :
                                  reset_init(display_random, _strength, settings, pin_protection,
                                             _skip_backup, _no_backup, confirm_create, rnd,
                                             confirm_entropy, pin_ok)
                             /\ Call([op |-> "reset_init", display_random |-> display_random,
                                      strength |-> _strength, pin_protection |-> pin_protection,
                                      skip_backup |-> _skip_backup, no_backup |-> _no_backup])

(***************************************************************************)
(* reset_backup                                                            *)
(***************************************************************************)
\* lines 150-153 with the bound of line 150 off by one: j < sizeof(current_word)
RECURSIVE copy_word_off_by_one(_, _, _, _)
copy_word_off_by_one(mn, idx, j, cw) ==
    IF At(mn, idx) /= SPACE /\ At(mn, idx) /= NUL /\ j < WordBufSize
    THEN copy_word_off_by_one(mn, idx + 1, j + 1, [cw EXCEPT ![j] = At(mn, idx)])
    ELSE [i |-> idx, j |-> j, cw |-> cw]

\* lines 150-153: copy characters of the word at i into current_word
RECURSIVE copy_word(_, _, _, _)
copy_word(mn, idx, j, cw) ==
    IF At(mn, idx) /= SPACE /\ At(mn, idx) /= NUL /\ j + 1 < WordBufSize
    THEN copy_word(mn, idx + 1, j + 1, [cw EXCEPT ![j] = At(mn, idx)])
    ELSE [i |-> idx, j |-> j, cw |-> cw]

\* lines 149-158: one word of the loop body, up to the layoutResetWord call
word_step(mn, idx, cw) ==
    LET c == copy_word(mn, idx, 0, cw)
        cw2 == [c.cw EXCEPT ![c.j] = NUL]
        i2 == IF At(mn, c.i) /= NUL THEN c.i + 1 ELSE c.i
    IN  [i |-> i2, cw |-> cw2, is_last |-> (At(mn, i2) = NUL)]

\* line 145 with a single pass
passes_done_after_one(p) == ~(p < 1)

\* line 145: the for loop has run both passes
passes_done(p) == ~(p < 2)

\* lines 145-147: the loop heads, from (pass, i, word_pos) to the next word shown
\* or to the end of the second pass
RECURSIVE next_word(_, _, _, _, _)
next_word(mn, p, idx, pos, cw) ==
    IF passes_done(p)
    THEN [done |-> TRUE, pass |-> p, i |-> idx, word_pos |-> pos, cw |-> cw, is_last |-> FALSE]
    ELSE IF At(mn, idx) /= NUL
    THEN LET w == word_step(mn, idx, cw)
         IN  [done |-> FALSE, pass |-> p, i |-> w.i, word_pos |-> pos, cw |-> w.cw,
              is_last |-> w.is_last]
    ELSE next_word(mn, p + 1, 0, 1, cw)

\* the locals of reset_backup are dead once it has returned
backup_return ==
    /\ pc' = "idle"
    /\ separated' = FALSE
    /\ mnemonic' = NoMnemonic
    /\ pass' = 0
    /\ i' = 0
    /\ word_pos' = 0

\* lines 177-181 with the result of config_setMnemonic ignored
stored_reply_always_success(set_ok) == Success("Device successfully initialized")

\* lines 177-181: the reply that follows config_setMnemonic
stored_reply(set_ok) ==
    IF set_ok THEN Success("Device successfully initialized")
              ELSE Failure("ProcessError", "Failed to store mnemonic")

\* lines 176-181: the inline run stores the mnemonic and replies
store_inline(mn, set_ok) ==
    /\ cfg_mnemonic' = IF set_ok THEN mn ELSE cfg_mnemonic
    /\ cfg_needs_backup' = FALSE

\* line 173 with the test dropped: every run takes the else branch
completes_separated_never(sep) == FALSE

\* line 173
completes_separated(sep) == sep

\* lines 171-184, and for the inline call the return into reset_entropy (line 125);
\* needs is needs_backup as the function has left it so far
backup_complete(sep, mn, o, set_ok, needs) ==
    /\ cfg_unfinished_backup' = FALSE
    /\ IF completes_separated(sep)
       THEN /\ out' = o \o <<ConfigSet("UnfinishedBackup", FALSE),
                             Success("Seed successfully backed up"), Home>>
                        \o (IF sep THEN <<>> ELSE <<MnemonicClear>>)
            /\ cfg_needs_backup' = needs
            /\ UNCHANGED cfg_mnemonic
       ELSE /\ store_inline(mn, set_ok)
            /\ out' = o \o <<ConfigSet("UnfinishedBackup", FALSE), ConfigSet("NeedsBackup", FALSE),
                             SetMnemonic("reset_backup", set_ok), stored_reply(set_ok), Home>>
                        \o (IF sep THEN <<>> ELSE <<MnemonicClear>>)
    /\ mnemo' = IF sep THEN mnemo ELSE NoMnemonic
    /\ backup_return

\* lines 145-184 from the loop position (p, idx, pos): runs to the next protectButton
\* of the word loop, or to the end of the function; needs and unfinished are the
\* two flags as the function has left them so far
backup_run(sep, mn, p, idx, pos, o, set_ok, needs, unfinished) ==
    LET nx == next_word(mn, p, idx, pos, current_word)
    IN  /\ current_word' = nx.cw
        /\ IF nx.done
           THEN backup_complete(sep, mn, o, set_ok, needs)
           ELSE /\ pc' = "confirm_word"
                /\ separated' = sep
                /\ mnemonic' = mn
                /\ pass' = nx.pass
                /\ i' = nx.i
                /\ word_pos' = nx.word_pos
                /\ out' = o \o <<Word(CStr(nx.cw, 0), nx.pass, nx.word_pos, nx.is_last)>>
                /\ mnemo' = IF sep THEN mnemo ELSE mn
                /\ cfg_needs_backup' = needs
                /\ cfg_unfinished_backup' = unfinished
                /\ UNCHANGED cfg_mnemonic

\* lines 141-142 left out: the two flags stay as they were
mark_unfinished_skipped == [needs |-> cfg_needs_backup, unfinished |-> cfg_unfinished_backup]

\* lines 141-142: the two flags as a separated run leaves them before the first word
mark_unfinished == [needs |-> FALSE, unfinished |-> TRUE]

\* lines 133-136 with a run let through when a backup was left unfinished
backup_refused_unless_unfinished(sep) == sep /\ ~cfg_needs_backup /\ ~cfg_unfinished_backup

\* lines 133-136 without the needs_backup check
backup_refused_never(sep) == FALSE

\* lines 133-136
backup_refused(sep) == sep /\ ~cfg_needs_backup

\* lines 131-184 up to the first protectButton of the word loop
reset_backup(sep, mn, o, set_ok) ==
    IF backup_refused(sep)
    THEN /\ out' = o \o <<Failure("UnexpectedMessage", "Seed already backed up")>>
         /\ UNCHANGED <<current_word, mnemo, cfg_mnemonic, cfg_needs_backup,
                        cfg_unfinished_backup, backup_vars>>
    ELSE IF sep
    THEN backup_run(TRUE, mn, 0, 0, 1,
                    o \o <<ConfigSet("UnfinishedBackup", TRUE), ConfigSet("NeedsBackup", FALSE)>>,
                    set_ok, mark_unfinished.needs, mark_unfinished.unfinished)
    ELSE backup_run(FALSE, mn, 0, 0, 1, o, set_ok, cfg_needs_backup, cfg_unfinished_backup)

\* lines 159-166 with the test of line 160 inverted
word_declined_clear_inverted ==
    /\ out' = out \o <<Button("ConfirmWord", FALSE)>>
                  \o (IF separated THEN <<SessionClear>> ELSE <<>>)
                  \o <<Home, Failure("ActionCancelled", "")>>
                  \o (IF ~separated THEN <<MnemonicClear>> ELSE <<>>)
    /\ mnemo' = IF ~separated THEN NoMnemonic ELSE mnemo
    /\ backup_return
    /\ UNCHANGED <<current_word, cfg_mnemonic, cfg_needs_backup, cfg_unfinished_backup>>

\* lines 159-166: a declined word
word_declined ==
    /\ out' = out \o <<Button("ConfirmWord", FALSE)>>
                  \o (IF ~separated THEN <<SessionClear>> ELSE <<>>)
                  \o <<Home, Failure("ActionCancelled", "")>>
                  \o (IF ~separated THEN <<MnemonicClear>> ELSE <<>>)
    /\ mnemo' = IF ~separated THEN NoMnemonic ELSE mnemo
    /\ backup_return
    /\ UNCHANGED <<current_word, cfg_mnemonic, cfg_needs_backup, cfg_unfinished_backup>>

\* lines 159-168: protectButton returns in the suspended reset_backup
confirm_word(accepted, set_ok) ==
    /\ pc = "confirm_word"
    /\ UNCHANGED <<session_vars, cfg_no_backup, cfg_settings, pending_request>>
    /\ IF ~accepted
       THEN word_declined
       ELSE backup_run(separated, mnemonic, pass, i, word_pos + 1,
                       out \o <<Button("ConfirmWord", TRUE)>>, set_ok,
                       cfg_needs_backup, cfg_unfinished_backup)

\* the button event that ends a protectButton of the word loop
ConfirmWord ==
    \E accepted, set_ok \in BOOLEAN :
        /\ confirm_word(accepted, set_ok)
        /\ UNCHANGED <<call, calls>>

\* mnemonics a caller hands to a separated reset_backup: "ab cde", "abcdefghijkl f"
TestMnemonics ==
    { <<97, 98, 32, 99, 100, 101>>,
      <<97, 98, 99, 100, 101, 102, 103, 104, 105, 106, 107, 108, 32, 102>> }

\* BackupDevice message: reset_backup(true, mnemonic) as a separate workflow
BackupDevice ==
    \E mn \in TestMnemonics :
        /\ calls < MaxCalls
        /\ pc = "idle"
        /\ UNCHANGED <<session_vars, cfg_no_backup, cfg_settings, pending_request>>
        /\ reset_backup(TRUE, mn, <<>>, TRUE)
        /\ Call([op |-> "reset_backup", mnemonic |-> mn])

(***************************************************************************)
(* reset_entropy                                                           *)
(***************************************************************************)
\* line 96 without the check
entropy_expected_always == TRUE

\* line 96
entropy_expected == awaiting_entropy

\* lines 102-106: int_entropy after sha256_Final
mixed_entropy(ext_entropy) == sha256(int_entropy \o ext_entropy)

\* line 107: the byte count handed to mnemonic_from_data
mnemonic_len == strength \div 8

\* line 110 without no_backup
direct_path_skip_only == skip_backup

\* line 110
direct_path == skip_backup \/ no_backup

\* lines 110-121: the mnemonic is stored without a backup
store_direct(mn, o, set_ok) ==
    /\ cfg_no_backup' = IF no_backup THEN TRUE ELSE cfg_no_backup
    /\ cfg_needs_backup' = IF no_backup THEN cfg_needs_backup ELSE TRUE
    /\ cfg_mnemonic' = IF set_ok THEN mn ELSE cfg_mnemonic
    /\ out' = o \o <<IF no_backup THEN ConfigSet("NoBackup", TRUE)
                                  ELSE ConfigSet("NeedsBackup", TRUE),
                     SetMnemonic("reset_entropy", set_ok),
                     IF set_ok THEN Success("Device successfully initialized")
                               ELSE Failure("ProcessError", "Failed to store mnemonic"),
                     Home, MnemonicClear>>
    /\ mnemo' = NoMnemonic
    /\ UNCHANGED <<current_word, cfg_unfinished_backup, backup_vars>>

\* lines 94-126
reset_entropy(ext_entropy, set_ok) ==
    /\ pc = "idle"
    /\ UNCHANGED <<strength, skip_backup, no_backup, cfg_settings>>
    /\ IF ~entropy_expected
       THEN /\ out' = <<Failure("UnexpectedMessage", "Not in Reset mode")>>
            /\ UNCHANGED <<int_entropy, awaiting_entropy, current_word, mnemo, config_vars,
                           backup_vars, pending_request>>
       ELSE LET digest == mixed_entropy(ext_entropy)
                mn == mnemonic_from_data(digest, mnemonic_len)
                o == <<MnemonicFromData(SubSeq(digest, 1, mnemonic_len))>>
            IN  /\ awaiting_entropy' = FALSE
                /\ pending_request' = NoRequest
                /\ int_entropy' = Zero32
                /\ IF direct_path
                   THEN store_direct(mn, o, set_ok)
                   ELSE /\ reset_backup(FALSE, mn, o, set_ok)
                        /\ UNCHANGED cfg_no_backup

\* EntropyAck message.  The outcome of config_setMnemonic is fixed to TRUE where the
\* call stores nothing.
ResetEntropy ==
    \E ext_entropy \in ExtEntropies, set_ok \in BOOLEAN :
        /\ calls < MaxCalls
        /\ ~(entropy_expected /\ direct_path) => set_ok
        /\ reset_entropy(ext_entropy, set_ok)
        /\ Call([op |-> "reset_entropy", ext_entropy |-> ext_entropy])

(***************************************************************************)
(* Specification.                                                          *)
(***************************************************************************)
Next == ResetInit \/ ResetEntropy \/ BackupDevice \/ ConfirmWord

Spec == Init /\ [][Next]_vars

(***************************************************************************)
(* A device that is reset and backed up again and again: reset_init        *)
(* without display_random and PIN, always confirmed, one strength, one      *)
(* random buffer, empty external entropy, one mnemonic for BackupDevice.    *)
(***************************************************************************)
\* number of messages the host sends in the longer runs
MaxLongCalls == 8

LongCall(c) ==
    /\ calls < MaxLongCalls
    /\ calls' = calls + 1
    /\ call' = c

\* ResetDevice message with strength 128, every choice of skip_backup and no_backup
ResetInitPlain ==
    \E _skip_backup, _no_backup \in BOOLEAN, settings \in SettingsInputs :
        /\ reset_init(FALSE, 128, settings, FALSE, _skip_backup, _no_backup, TRUE,
                      CHOOSE r \in RandomBuffers : TRUE, TRUE, TRUE)
        /\ LongCall([op |-> "reset_init", display_random |-> FALSE, strength |-> 128,
                     pin_protection |-> FALSE, skip_backup |-> _skip_backup,
                     no_backup |-> _no_backup])

\* EntropyAck message with no external entropy
ResetEntropyPlain ==
    \E set_ok \in BOOLEAN :
        /\ ~(entropy_expected /\ direct_path) => set_ok
        /\ reset_entropy(<<>>, set_ok)
        /\ LongCall([op |-> "reset_entropy", ext_entropy |-> <<>>])

\* BackupDevice message with the mnemonic "ab cde"
BackupDevicePlain ==
    LET mn == <<97, 98, 32, 99, 100, 101>>
    IN  /\ pc = "idle"
        /\ UNCHANGED <<session_vars, cfg_no_backup, cfg_settings, pending_request>>
        /\ reset_backup(TRUE, mn, <<>>, TRUE)
        /\ LongCall([op |-> "reset_backup", mnemonic |-> mn])

NextLong == ResetInitPlain \/ ResetEntropyPlain \/ BackupDevicePlain \/ ConfirmWord

SpecLong == Init /\ [][NextLong]_vars

(***************************************************************************)
(* The word loop on arbitrary strings: a device reset once, then            *)
(* BackupDevice with mnemonics of every shape.  A pending confirmation is   *)
(* resolved eventually: protectButton returns once the button is pressed.   *)
(***************************************************************************)
\* length of the strings over {'a', ' '} given to reset_backup
MaxMnemonicLen == 4

\* every string over {'a', ' '} of at most n characters, the empty one included
Strings(n) == UNION { [1..k -> {97, SPACE}] : k \in 0..n }

\* an 11 character token "bcdefghijkl"
LongToken == [k \in 1..(WordBufSize + 1) |-> 97 + k]

\* mnemonics with a token of more than 9 characters
LongTokenMnemonics ==
    { LongToken,
      SubSeq(LongToken, 1, WordBufSize),
      <<SPACE>> \o LongToken \o <<SPACE>>,
      LongToken \o <<SPACE, 97>>,
      LongToken \o LongToken }

WordMnemonics == Strings(MaxMnemonicLen) \cup LongTokenMnemonics

\* ResetDevice message with strength 128, confirmed, with or without skip_backup
ResetInitWords ==
    \E _skip_backup \in BOOLEAN, settings \in SettingsInputs :
        /\ reset_init(FALSE, 128, settings, FALSE, _skip_backup, FALSE, TRUE,
                      CHOOSE r \in RandomBuffers : TRUE, TRUE, TRUE)
        /\ Call([op |-> "reset_init", display_random |-> FALSE, strength |-> 128,
                 pin_protection |-> FALSE, skip_backup |-> _skip_backup, no_backup |-> FALSE])

\* EntropyAck message with no external entropy, config_setMnemonic succeeding
ResetEntropyWords ==
    /\ reset_entropy(<<>>, TRUE)
    /\ Call([op |-> "reset_entropy", ext_entropy |-> <<>>])

\* BackupDevice message with any of the mnemonics
BackupDeviceWords ==
    \E mn \in WordMnemonics :
        /\ calls < MaxCalls
        /\ pc = "idle"
        /\ UNCHANGED <<session_vars, cfg_no_backup, cfg_settings, pending_request>>
        /\ reset_backup(TRUE, mn, <<>>, TRUE)
        /\ Call([op |-> "reset_backup", mnemonic |-> mn])

NextWords == ResetInitWords \/ ResetEntropyWords \/ BackupDeviceWords \/ ConfirmWord

SpecWords == Init /\ [][NextWords]_vars /\ WF_vars(ConfirmWord)

(***************************************************************************)
(* Reading the record of a handler run.                                    *)
(***************************************************************************)
Events(o, t) == SelectSeq(o, LAMBDA e : e.t = t)
Count(o, t) == Len(Events(o, t))
Has(o, t) == Count(o, t) > 0

\* the step is the invocation of handler op
Invokes(op) == calls' = calls + 1 /\ call'.op = op

\* the failures sent by the handler run recorded in o
Failures(o) == Events(o, "fsm_sendFailure")

\* C1: reset_entropy called while awaiting_entropy is false sends one unexpected-message
\* failure, calls no other collaborator and changes neither the reset.c statics nor
\* the configuration store; an accepted reset_entropy clears awaiting_entropy, which
\* only a reset_init that writes an EntropyRequest raises again.
C1_EntropyNotAwaited ==
    [][ /\ Invokes("reset_entropy") =>
            /\ ~awaiting_entropy =>
                  /\ out' = <<Failure("UnexpectedMessage", "Not in Reset mode")>>
                  /\ UNCHANGED <<session_vars, config_vars>>
            /\ ~awaiting_entropy'
        /\ (~awaiting_entropy /\ awaiting_entropy') =>
              (Invokes("reset_init") /\ Count(out', "msg_write") = 1)
      ]_vars

\* a reset_entropy that follows an accepted one has been refused
C1_Witness ==
    /\ call.op = "reset_entropy"
    /\ out = <<Failure("UnexpectedMessage", "Not in Reset mode")>>
    /\ cfg_mnemonic /= NoMnemonic

\* C2: reset_init with a valid strength and display_random together with skip_backup
\* or no_backup sends one process-error failure and goes home; it shows no dialog,
\* asks for no confirmation, draws no entropy, writes no setting, writes no
\* EntropyRequest and leaves int_entropy, awaiting_entropy and the configuration store
\* as they were.
C2_IncompatibleOptions ==
    [][ ( /\ Invokes("reset_init")
          /\ call'.strength \in Strengths
          /\ call'.display_random
          /\ call'.skip_backup \/ call'.no_backup )
        => /\ out' = <<Failure("ProcessError",
                               "Can't show internal entropy when backup is skipped"), Home>>
           /\ UNCHANGED <<int_entropy, awaiting_entropy, config_vars, pending_request>>
      ]_vars

\* display_random with no_backup alone has been refused
C2_Witness ==
    /\ call.op = "reset_init"
    /\ call.display_random /\ call.no_backup /\ ~call.skip_backup
    /\ Len(Failures(out)) = 1

\* the reset_init run recorded in o ended without an EntropyRequest: unsupported
\* strength, a failure sent, or PIN setup failed
InitAborted(c, o) ==
    \/ c.strength \notin Strengths
    \/ Has(o, "fsm_sendFailure")
    \/ \E k \in 1..Len(o) : o[k] = ChangePin(FALSE)

\* C3: the four settings are written only by a reset_init that goes on to write the
\* EntropyRequest: a reset_init that ends by an unsupported strength, a failure or a
\* failed PIN setup writes no setting and leaves awaiting_entropy as it was, every
\* other reset_init writes the four settings, then the request, and raises
\* awaiting_entropy; no other step changes the settings.
C3_SettingsOnlyWithRequest ==
    [][ /\ Invokes("reset_init") =>
            IF InitAborted(call', out')
            THEN /\ ~Has(out', "config_set")
                 /\ ~Has(out', "msg_write")
                 /\ UNCHANGED <<cfg_settings, awaiting_entropy>>
            ELSE /\ Count(out', "config_set") = 4
                 /\ out'[Len(out')] = EntropyRequest
                 /\ awaiting_entropy'
        /\ ~Invokes("reset_init") => UNCHANGED cfg_settings
      ]_vars

\* PIN setup has failed after both confirmations were given
C3_Witness ==
    /\ call.op = "reset_init"
    /\ call.display_random
    /\ \E k \in 1..Len(out) : out[k] = ChangePin(FALSE)
    /\ cfg_settings = UnsetSettings

\* C4: an accepted reset_entropy hands mnemonic_from_data the first s/8 bytes of the
\* digest of (internal entropy || external entropy), s and the internal entropy being
\* those of the reset_init that wrote the EntropyRequest being answered.
C4_MnemonicFromRequest ==
    [][ (Invokes("reset_entropy") /\ awaiting_entropy) =>
            /\ Count(out', "mnemonic_from_data") = 1
            /\ Events(out', "mnemonic_from_data")[1].data =
                  SubSeq(sha256(pending_request.entropy \o call'.ext_entropy), 1,
                         pending_request.strength \div 8)
      ]_vars

\* the mnemonic stored by the handler run recorded in o
StoredBy(o, by) == SelectSeq(o, LAMBDA e : e.t = "config_setMnemonic" /\ e.by = by)

\* the mnemonic derived in the reset_entropy run recorded in o
Derived(o) ==
    LET d == Events(o, "mnemonic_from_data")[1].data IN mnemonic_from_data(d, Len(d))

\* C5: an accepted reset_entropy dispatches on the statics: with no_backup it sets the
\* no_backup flag, leaves needs_backup alone, stores the mnemonic itself and shows no
\* word; with skip_backup and not no_backup it sets needs_backup, stores the mnemonic
\* itself and shows no word; with neither it runs reset_backup inline and does not
\* store the mnemonic itself.  On the two direct paths it replies success exactly when
\* config_setMnemonic succeeds and process error otherwise.
C5_Dispatch ==
    [][ (Invokes("reset_entropy") /\ awaiting_entropy) =>
            LET direct == StoredBy(out', "reset_entropy")
                stored == direct[1].result
            IN  IF no_backup \/ skip_backup
                THEN /\ Len(direct) = 1
                     /\ ~Has(out', "layoutResetWord")
                     /\ pc' = "idle"
                     /\ IF no_backup
                        THEN cfg_no_backup' /\ UNCHANGED cfg_needs_backup
                        ELSE cfg_needs_backup' /\ UNCHANGED cfg_no_backup
                     /\ cfg_mnemonic' = IF stored THEN Derived(out') ELSE cfg_mnemonic
                     /\ Count(out', "fsm_sendSuccess") = (IF stored THEN 1 ELSE 0)
                     /\ Failures(out') = (IF stored THEN <<>>
                                          ELSE <<Failure("ProcessError", "Failed to store mnemonic")>>)
                ELSE /\ Len(direct) = 0
                     /\ pc' = "confirm_word" /\ ~separated' /\ mnemonic' = Derived(out')
                     /\ Count(out', "layoutResetWord") = 1
                     /\ UNCHANGED <<cfg_mnemonic, cfg_no_backup>>
      ]_vars

\* reset_entropy has stored a mnemonic with no_backup and skip_backup both set
C5_Witness ==
    /\ call.op = "reset_entropy"
    /\ no_backup /\ skip_backup
    /\ cfg_no_backup /\ ~cfg_needs_backup
    /\ Len(StoredBy(out, "reset_entropy")) = 1
    /\ cfg_mnemonic /= NoMnemonic

\* the space-delimited tokens of a string
RECURSIVE Tokens(_)
Tokens(str) ==
    IF \E k \in 1..Len(str) : str[k] = SPACE
    THEN LET k == CHOOSE k \in 1..Len(str) :
                      str[k] = SPACE /\ \A m \in 1..(k - 1) : str[m] /= SPACE
         IN  <<SubSeq(str, 1, k - 1)>> \o Tokens(SubSeq(str, k + 1, Len(str)))
    ELSE <<str>>

\* the positions of the events of kind t in o
Positions(o, t) == { k \in 1..Len(o) : o[k].t = t }

\* every word shown in o is followed at once by an accepted confirmation
AllWordsConfirmed(o) ==
    \A k \in Positions(o, "layoutResetWord") :
        k < Len(o) /\ o[k + 1] = Button("ConfirmWord", TRUE)

\* two passes over the tokens of mn, as layoutResetWord calls
TwoPasses(mn) ==
    LET toks == Tokens(mn)
        n == Len(toks)
    IN  [k \in 1..(2 * n) |->
            Word(toks[((k - 1) % n) + 1], (k - 1) \div n, ((k - 1) % n) + 1, ((k - 1) % n) + 1 = n)]

\* C6: an inline reset_backup calls config_setMnemonic only after every word of the
\* mnemonic has been shown and confirmed in pass 0 and again in pass 1: while a word
\* confirmation is pending, or once one was declined, the inline run has stored nothing.
C6_InlineStoreAfterTwoPasses ==
    call.op = "reset_entropy" =>
        LET stored == Positions(out, "config_setMnemonic")
            inline == { k \in stored : out[k].by = "reset_backup" }
        IN  /\ pc = "confirm_word" => stored = {}
            /\ (\E k \in 1..Len(out) : out[k] = Button("ConfirmWord", FALSE)) => stored = {}
            /\ inline /= {} =>
                  /\ Events(out, "layoutResetWord") = TwoPasses(Derived(out))
                  /\ AllWordsConfirmed(out)
                  /\ \A k \in inline : \A w \in Positions(out, "protectButton") : w < k

\* an inline run has stored its mnemonic
C6_Witness ==
    /\ call.op = "reset_entropy"
    /\ Len(StoredBy(out, "reset_backup")) = 1
    /\ cfg_mnemonic = Derived(out)

\* C7: one handler run, the inline reset_backup of a reset_entropy included, calls
\* config_setMnemonic at most once, and a separated reset_backup never calls it.
C7_StoreAtMostOnce ==
    /\ Count(out, "config_setMnemonic") <= 1
    /\ call.op = "reset_backup" => Count(out, "config_setMnemonic") = 0
    /\ call.op = "reset_entropy" =>
          (Len(StoredBy(out, "reset_entropy")) = 0 \/ Len(StoredBy(out, "reset_backup")) = 0)

\* a separated run has completed on a device whose mnemonic was stored before
C7_Witness ==
    /\ call.op = "reset_backup"
    /\ pc = "idle"
    /\ Has(out, "fsm_sendSuccess")
    /\ cfg_mnemonic /= NoMnemonic

\* C8: a separated reset_backup invoked while needs_backup is false sends one
\* unexpected-message failure, shows no word, asks for no confirmation and leaves
\* unfinished_backup, needs_backup and the stored mnemonic as they were.
C8_BackupNotOwed ==
    [][ (Invokes("reset_backup") /\ ~cfg_needs_backup) =>
            /\ out' = <<Failure("UnexpectedMessage", "Seed already backed up")>>
            /\ pc' = "idle"
            /\ UNCHANGED <<cfg_unfinished_backup, cfg_needs_backup, cfg_mnemonic, current_word>>
      ]_vars

\* a separated run has been refused on a device that holds a mnemonic
C8_Witness ==
    /\ call.op = "reset_backup"
    /\ out = <<Failure("UnexpectedMessage", "Seed already backed up")>>
    /\ cfg_mnemonic /= NoMnemonic

\* the mnemonic given to the reset_backup run of the handler invoked last
GivenMnemonic == IF call.op = "reset_backup" THEN call.mnemonic ELSE Derived(out)

\* a reset_backup run has ended with every confirmation accepted
AllAccepted ==
    /\ pc = "idle"
    /\ Has(out, "layoutResetWord")
    /\ AllWordsConfirmed(out)

\* C9: a reset_backup run in which every confirmation is accepted shows every
\* space-delimited token of its mnemonic exactly twice: all tokens in order with
\* pass 0 and word_pos 1..n, then all again with pass 1 and word_pos 1..n, is_last
\* being true exactly for the n-th token of each pass.
C9_EveryTokenTwice ==
    AllAccepted => Events(out, "layoutResetWord") = TwoPasses(GivenMnemonic)

\* a word of an inline reset_backup is declined in this step
InlineDeclined ==
    /\ pc = "confirm_word" /\ ~separated
    /\ \E k \in 1..Len(out') : out'[k] = Button("ConfirmWord", FALSE)

\* C10: when a word of an inline reset_backup is declined, session_clear is called,
\* exactly one failure is sent and it is action-cancelled, no success is sent and
\* config_setMnemonic is not called; the stored mnemonic, needs_backup and
\* unfinished_backup are as they were before the reset_entropy call, for no step of
\* an inline run that has not completed changes them.
C10_InlineCancel ==
    [][ /\ InlineDeclined =>
            /\ pc' = "idle"
            /\ Count(out', "session_clear") = 1
            /\ Failures(out') = <<Failure("ActionCancelled", "")>>
            /\ ~Has(out', "fsm_sendSuccess")
            /\ ~Has(out', "config_setMnemonic")
        /\ (InlineDeclined \/ (pc' = "confirm_word" /\ ~separated')) =>
              UNCHANGED <<cfg_mnemonic, cfg_needs_backup, cfg_unfinished_backup>>
      ]_vars

\* the second word of an inline run has been declined
C10_Witness ==
    /\ call.op = "reset_entropy"
    /\ pc = "idle"
    /\ Has(out, "session_clear")
    /\ Count(out, "layoutResetWord") = 2

\* a word of the running reset_backup was declined
Declined(o) == \E k \in 1..Len(o) : o[k] = Button("ConfirmWord", FALSE)

\* C11: in a separated reset_backup that was not refused, unfinished_backup is set and
\* needs_backup cleared before the first word is shown, and both stay so at every
\* later word and after a word is declined; the run, cancelled or waiting for a
\* confirmation, has not called config_setMnemonic or session_clear, and no step of it
\* changes the stored mnemonic.
C11_SeparatedFlags ==
    [][ /\ ( /\ call'.op = "reset_backup"
             /\ Has(out', "layoutResetWord")
             /\ pc' = "confirm_word" \/ Declined(out') )
           => /\ cfg_unfinished_backup' /\ ~cfg_needs_backup'
              /\ SubSeq(out', 1, 3) = <<ConfigSet("UnfinishedBackup", TRUE),
                                        ConfigSet("NeedsBackup", FALSE), out'[3]>>
              /\ out'[3].t = "layoutResetWord"
              /\ ~Has(out', "config_setMnemonic")
              /\ ~Has(out', "session_clear")
        /\ (Invokes("reset_backup") \/ (pc = "confirm_word" /\ separated))
           => UNCHANGED cfg_mnemonic
      ]_vars

\* the second word of a separated run has been declined
C11_Witness ==
    /\ call.op = "reset_backup"
    /\ pc = "idle"
    /\ Declined(out)
    /\ Count(out, "layoutResetWord") = 2
    /\ cfg_unfinished_backup /\ ~cfg_needs_backup

\* C12: a reset_backup run that completes both passes with every confirmation accepted
\* leaves unfinished_backup false; a separated run then sends one success and no
\* failure and leaves needs_backup false; an inline run clears needs_backup, calls
\* config_setMnemonic and sends one success and no failure when that call succeeds,
\* one process-error failure and no success when it fails.
C12_Completion ==
    [][ (pc = "confirm_word" /\ pc' = "idle" /\ ~Declined(out')) =>
            /\ ~cfg_unfinished_backup'
            /\ ~cfg_needs_backup'
            /\ IF separated
               THEN /\ Events(out', "fsm_sendSuccess") = <<Success("Seed successfully backed up")>>
                    /\ Failures(out') = <<>>
                    /\ ~Has(out', "config_setMnemonic")
               ELSE LET stored == StoredBy(out', "reset_backup")
                    IN  /\ Len(stored) = 1
                        /\ cfg_mnemonic' = (IF stored[1].result THEN mnemonic ELSE cfg_mnemonic)
                        /\ Events(out', "fsm_sendSuccess") =
                              (IF stored[1].result
                               THEN <<Success("Device successfully initialized")>> ELSE <<>>)
                        /\ Failures(out') =
                              (IF stored[1].result THEN <<>>
                               ELSE <<Failure("ProcessError", "Failed to store mnemonic")>>)
      ]_vars

\* an inline run has completed and config_setMnemonic has failed
C12_Witness ==
    /\ call.op = "reset_entropy"
    /\ pc = "idle"
    /\ StoredBy(out, "reset_backup") = <<SetMnemonic("reset_backup", FALSE)>>
    /\ ~cfg_unfinished_backup /\ ~cfg_needs_backup

\* C13: a reset_init that writes no EntropyRequest (unsupported strength, incompatible
\* options, a declined confirmation, failed PIN setup) leaves strength, skip_backup,
\* no_backup, int_entropy and awaiting_entropy as they were while an EntropyRequest is
\* outstanding, so that the reset_entropy answering the request finds the values of
\* the reset_init that wrote it.
C13_AbortedInitKeepsSession ==
    [][ /\ (Invokes("reset_init") /\ awaiting_entropy /\ ~Has(out', "msg_write"))
              => UNCHANGED session_vars
        /\ (Invokes("reset_entropy") /\ awaiting_entropy) =>
              /\ strength = pending_request.strength
              /\ int_entropy = pending_request.entropy
              /\ skip_backup = pending_request.skip_backup
              /\ no_backup = pending_request.no_backup
      ]_vars

\* a token as the claim of C14 has it shown: its first WordBufSize - 1 characters
Truncated(tok) == SubSeq(tok, 1, IF Len(tok) < WordBufSize THEN Len(tok) ELSE WordBufSize - 1)

\* two passes over the tokens of mn, each token shown truncated at its own word_pos
TwoPassesTruncated(mn) ==
    LET full == TwoPasses(mn)
    IN  [k \in 1..Len(full) |-> [full[k] EXCEPT !.word = Truncated(full[k].word)]]

\* some token of mn is longer than WordBufSize - 1 characters
HasLongToken(mn) == \E k \in 1..Len(Tokens(mn)) : Len(Tokens(mn)[k]) >= WordBufSize

\* C14: in a reset_backup run whose mnemonic has a token longer than 9 characters and
\* in which every confirmation is accepted, that token is shown as its first 9
\* characters at one word_pos, the rest of it is shown nowhere, and the word shown
\* next is the next space-delimited token.
C14_LongTokenTruncated ==
    (AllAccepted /\ HasLongToken(GivenMnemonic)) =>
        Events(out, "layoutResetWord") = TwoPassesTruncated(GivenMnemonic)

\* C15: a handler that has returned after sending a failure (process error, action
\* cancelled, unexpected message) has also called layoutHome.
C15_FailureGoesHome ==
    (pc = "idle" /\ Has(out, "fsm_sendFailure")) => Has(out, "layoutHome")

\* the handler invoked last has returned and no EntropyRequest is outstanding: the
\* workflow has ended, by success, failure or cancellation
WorkflowEnded == call.op /= "none" /\ pc = "idle" /\ ~awaiting_entropy

\* C16: once a handler has returned through a path that ends the workflow, the secret
\* buffers int_entropy and current_word are all zero.
C16_SecretsZeroed ==
    WorkflowEnded => (int_entropy = Zero32 /\ current_word = ZeroWord)

\* C18: needs_backup is true only on a device whose mnemonic has been stored, and so
\* is the no_backup flag: a failed config_setMnemonic on the skip_backup path does not
\* leave needs_backup true, nor one on the no_backup path the no_backup flag.
C18_BackupOwedOnlyWithMnemonic ==
    (cfg_needs_backup \/ cfg_no_backup) => cfg_mnemonic /= NoMnemonic

\* C17: whenever no handler is running, needs_backup and unfinished_backup are not
\* both true.
C17_OneBackupObligation ==
    pc = "idle" => ~(cfg_needs_backup /\ cfg_unfinished_backup)

\* a separated run was cancelled and nothing has lifted its mark since: unfinished_backup
\* is set, needs_backup is clear and no separated run is waiting for a confirmation
BackupAbandoned ==
    /\ cfg_unfinished_backup /\ ~cfg_needs_backup
    /\ ~(pc = "confirm_word" /\ separated)

\* C20: declining a word of a separated reset_backup leaves unfinished_backup set and
\* needs_backup clear; from then on every separated reset_backup is refused with the
\* unexpected-message failure "Seed already backed up" and changes nothing, and the
\* two flags stay as they are until either a reset_entropy on the skip_backup path
\* sets needs_backup or an inline reset_backup completes and clears unfinished_backup;
\* no other step changes them.
C20_AbandonedBackup ==
    [][ /\ (pc = "confirm_word" /\ separated /\ Declined(out')) => BackupAbandoned'
        /\ (BackupAbandoned /\ Invokes("reset_backup")) =>
              /\ out' = <<Failure("UnexpectedMessage", "Seed already backed up")>>
              /\ pc' = "idle"
              /\ UNCHANGED <<cfg_unfinished_backup, cfg_needs_backup, cfg_mnemonic>>
        /\ BackupAbandoned =>
              \/ BackupAbandoned'
              \/ /\ Invokes("reset_entropy") /\ awaiting_entropy /\ skip_backup /\ ~no_backup
                 /\ cfg_needs_backup' /\ cfg_unfinished_backup'
              \/ /\ pc = "confirm_word" /\ ~separated /\ pc' = "idle" /\ ~Declined(out')
                 /\ ~cfg_needs_backup' /\ ~cfg_unfinished_backup'
      ]_vars

\* a separated run has been refused after an earlier one was cancelled
C20_Witness ==
    /\ call.op = "reset_backup"
    /\ out = <<Failure("UnexpectedMessage", "Seed already backed up")>>
    /\ cfg_unfinished_backup /\ ~cfg_needs_backup

\* the copy of the word at index idx of mn writes current_word at indexes 0..9 only
\* (characters below j, the terminator at j) and reads mn up to its terminator
CopyInBounds(mn, idx) ==
    LET c == copy_word(mn, idx, 0, current_word)
    IN  c.j \in 0..(WordBufSize - 1) /\ c.i <= Len(mn)

\* C19: for every mnemonic string, a reset_backup run ends once every pending
\* confirmation is resolved: while a confirmation is pending the read index is at
\* most at the terminator, the copy of the next word and of the first word of a pass
\* writes current_word inside its 10 bytes, every accepted word moves the read
\* index on by at least one within the pass or starts the next pass, and a pending
\* confirmation leads to the return of the run.
C19_WordLoopTerminates ==
    /\ [](pc = "confirm_word" =>
            /\ i \in 1..Len(mnemonic)
            /\ CopyInBounds(mnemonic, 0)
            /\ At(mnemonic, i) /= NUL => CopyInBounds(mnemonic, i))
    /\ [][ (pc = "confirm_word" /\ pc' = "confirm_word") =>
              /\ mnemonic' = mnemonic
              /\ pass' \in {pass, pass + 1}
              /\ i' >= (IF pass' = pass THEN i ELSE 0) + 1 ]_vars
    /\ (pc = "confirm_word") ~> (pc = "idle")

\* a run over a mnemonic with leading and doubled spaces has shown an empty word and
\* has completed both passes
C19_Witness ==
    /\ call.op = "reset_backup"
    /\ call.mnemonic = <<SPACE, 97, SPACE, SPACE>>
    /\ pc = "idle"
    /\ Has(out, "fsm_sendSuccess")
    /\ \E k \in 1..Len(out) : out[k].t = "layoutResetWord" /\ out[k].word = <<>>
====
